---- MODULE Spec2Model ----
(***************************************************************************)
(* autogaps: the grade-report decomposer of parser.py (extract_tables,     *)
(* table_to_df, df_to_object, parse) and the legacy single-pass scanner of *)
(* main.py (parse_data, write_all, the module-level DataFrame df).         *)
(*                                                                         *)
(* Text is a tuple of one-character strings, so that the regular           *)
(* expressions and substring tests of the code are computed character by   *)
(* character.  A parsed document is the sequence of its <tr> elements, a   *)
(* <tr> the sequence of its <td> cells.                                    *)
(***************************************************************************)
EXTENDS Integers, Sequences, FiniteSets, TLC

VARIABLES
    df,     \* main.py: the module-level DataFrame, a sequence of written rows
    call,   \* the entry point invoked last ("idle" before the first call)
    arg,    \* its argument
    ret,    \* what it returned, or the exception it raised
    ncalls  \* number of invocations so far

vars == <<df, call, arg, ret, ncalls>>

----------------------------------------------------------------------------
(* Bounds of the model                                                      *)

MaxTrs == 4         \* rows of a document handed to extract_tables / parse
MaxTableRows == 4   \* rows of a RawTable handed to df_to_object
MaxScanRows == 4    \* rows of a document handed to one parse_data run
MaxDocRows == 2     \* rows of a document when invocations are repeated
MaxCalls == 2       \* invocations in a sequence of repeated invocations

----------------------------------------------------------------------------
(* Python values                                                            *)

Str(t) == [k |-> "str", v |-> t]
Float(t) == [k |-> "float", v |-> t]
NaN == [k |-> "nan", v |-> <<>>]
None == [k |-> "none", v |-> <<>>]

Ok(x) == [ok |-> TRUE, val |-> x]
Err(e) == [ok |-> FALSE, val |-> [error |-> e]]

Digits == {"0", "1", "2", "3", "4", "5", "6", "7", "8", "9"}
Upper == {"A", "B", "C", "D", "E", "F", "G", "H", "I", "J", "K", "L", "M",
          "N", "O", "P", "Q", "R", "S", "T", "U", "V", "W", "X", "Y", "Z"}
Lower == {"a", "b", "c", "d", "e", "f", "g", "h", "i", "j", "k", "l", "m",
          "n", "o", "p", "q", "r", "s", "t", "u", "v", "w", "x", "y", "z"}
Space == {" "}

IsDigitAt(t, p) == p >= 1 /\ p <= Len(t) /\ t[p] \in Digits

\* bool(x) of a str, a float or None
Truthy(x) ==
    CASE x.k = "str" -> x.v # <<>>
      [] x.k = "none" -> FALSE
      [] x.k = "nan" -> TRUE
      [] x.k = "float" -> \E p \in 1..Len(x.v) : x.v[p] \in (Digits \ {"0"})

\* pat in text
Contains(text, pat) ==
    \E p \in 1..(Len(text) - Len(pat) + 1) : SubSeq(text, p, p + Len(pat) - 1) = pat

\* text.split(" ")[0]
SplitFirst(text) ==
    IF \E p \in 1..Len(text) : text[p] = " "
    THEN LET p == CHOOSE q \in 1..Len(text) :
                      text[q] = " " /\ \A r \in 1..(q - 1) : text[r] # " "
         IN SubSeq(text, 1, p - 1)
    ELSE text

RECURSIVE Strip(_)
\* text.strip()
Strip(text) ==
    IF text = <<>> THEN text
    ELSE IF Head(text) \in Space THEN Strip(Tail(text))
    ELSE IF text[Len(text)] \in Space THEN Strip(SubSeq(text, 1, Len(text) - 1))
    ELSE text

\* length of the match of \d\.\d{1,2} starting at p (0: no match); {1,2} is greedy
FloatMatchLen(text, p) ==
    IF IsDigitAt(text, p) /\ p + 2 <= Len(text) /\ text[p + 1] = "." /\ IsDigitAt(text, p + 2)
    THEN IF IsDigitAt(text, p + 3) THEN 4 ELSE 3
    ELSE 0

RECURSIVE FindallFloatFrom(_, _)
FindallFloatFrom(text, p) ==
    IF p > Len(text) THEN <<>>
    ELSE LET n == FloatMatchLen(text, p)
         IN IF n > 0
            THEN <<SubSeq(text, p, p + n - 1)>> \o FindallFloatFrom(text, p + n)
            ELSE FindallFloatFrom(text, p + 1)

\* re.findall(r"\d\.\d{1,2}", text): the non-overlapping matches, left to right
FindallFloat(text) == FindallFloatFrom(text, 1)

\* re.match(r"\d\.\d{1,2}", text)
MatchFloat(text) == FloatMatchLen(text, 1) > 0

RECURSIVE FindallBranchFrom(_, _)
FindallBranchFrom(text, p) ==
    IF p + 2 > Len(text) THEN <<>>
    ELSE IF text[p] \in Upper /\ text[p + 1] \in Upper /\ text[p + 2] \in Upper
         THEN <<SubSeq(text, p, p + 2)>> \o FindallBranchFrom(text, p + 3)
         ELSE FindallBranchFrom(text, p + 1)

\* re.findall(r"[A-Z]{3}", text)
FindallBranch(text) == FindallBranchFrom(text, 1)

\* re.match(r"\d{1,2}\.\d{1,2}\.\d{2,4}", text)
MatchDate(text) ==
    \E a \in 1..2, b \in 1..2 :
        /\ \A p \in 1..a : IsDigitAt(text, p)
        /\ a + 1 <= Len(text) /\ text[a + 1] = "."
        /\ \A p \in (a + 2)..(a + 1 + b) : IsDigitAt(text, p)
        /\ a + b + 2 <= Len(text) /\ text[a + b + 2] = "."
        /\ IsDigitAt(text, a + b + 3) /\ IsDigitAt(text, a + b + 4)

\* re.match(r"[\sA-Za-z]+", text)
MatchString(text) == text # <<>> /\ text[1] \in (Space \cup Upper \cup Lower)

----------------------------------------------------------------------------
(* parser.py                                                                *)

T_note == <<"n", "o", "t", "e">>

ColumnCount == 6

\* next_tr.find('td', {'class': 'bigheader'})
HasBigheader(tr) == \E j \in 1..Len(tr) : tr[j].cls = "bigheader"

\* what the lookahead ignores: every row closes a group
LookaheadAlways(trs, i) == TRUE

\* the lookahead tests the row itself instead of its successor
LookaheadSelf(trs, i) == HasBigheader(trs[i])

\* trs[i + 1] carries the marker (i counts from 1 here, from 0 in the code)
LookaheadIsMarker(trs, i) == HasBigheader(trs[i + 1])

\* the group is closed without the row being appended to it first
CloseGroupDropRow(groups, current_group, tr) == Append(groups, current_group)

\* current_group.append(tr); groups.append(current_group)
CloseGroup(groups, current_group, tr) == Append(groups, Append(current_group, tr))

RECURSIVE ExtractLoop(_, _, _, _)
ExtractLoop(trs, i, groups, current_group) ==
    IF i > Len(trs) THEN groups
    ELSE IF i + 1 <= Len(trs)
         THEN IF LookaheadIsMarker(trs, i)
              THEN ExtractLoop(trs, i + 1, CloseGroup(groups, current_group, trs[i]), <<>>)
              ELSE ExtractLoop(trs, i + 1, groups, Append(current_group, trs[i]))
         ELSE ExtractLoop(trs, i + 1, CloseGroup(groups, current_group, trs[i]),
                          Append(current_group, trs[i]))

extract_tables(trs) == ExtractLoop(trs, 1, <<>>, <<>>)

\* pandas.read_html: the text of a cell, stripped
CellText(tr, j) == IF j <= Len(tr) THEN Strip(tr[j].text) ELSE <<>>

\* what pandas' type inference reads as a number
IsNumericText(t) ==
    /\ \E p \in 1..Len(t) : t[p] \in Digits
    /\ \A p \in 1..Len(t) : t[p] \in (Digits \cup {"."})
    /\ Cardinality({p \in 1..Len(t) : t[p] = "."}) <= 1

\* a column whose non-empty cells are all numbers is read as floats
NumericColumn(table, j) ==
    \A r \in 1..Len(table) : CellText(table[r], j) = <<>> \/ IsNumericText(CellText(table[r], j))

CellValue(table, r, j) ==
    LET t == CellText(table[r], j)
    IN IF t = <<>> THEN NaN
       ELSE IF NumericColumn(table, j) THEN Float(t) ELSE Str(t)

MaxCells(table) == CHOOSE n \in {Len(table[r]) : r \in 1..Len(table)} :
                       \A r \in 1..Len(table) : Len(table[r]) <= n

\* pd.read_html(...)[0] of one group, then df.columns = [...] (six names)
BuildTable(table) ==
    IF MaxCells(table) # ColumnCount THEN Err("ValueError")
    ELSE Ok([r \in 1..Len(table) |->
                [Header |-> CellValue(table, r, 1), Date |-> CellValue(table, r, 2),
                 Description |-> CellValue(table, r, 3), Mean |-> CellValue(table, r, 4),
                 Weight |-> CellValue(table, r, 5), Grade |-> CellValue(table, r, 6)]])

RECURSIVE TableToDfLoop(_, _, _)
TableToDfLoop(tables, n, dfs) ==
    IF n > Len(tables) THEN Ok(dfs)
    ELSE LET b == BuildTable(tables[n])
         IN IF b.ok THEN TableToDfLoop(tables, n + 1, Append(dfs, b.val)) ELSE b

table_to_df(tables) == TableToDfLoop(tables, 1, <<>>)

\* re.findall(re_float, x): a TypeError unless x is a str
ReFindall(x) == IF x.k = "str" THEN Ok(FindallFloat(x.v)) ELSE Err("TypeError")

\* m[0] if m else None
FirstOrNone(m) == IF m # <<>> THEN Str(m[1]) ELSE None

\* header.split(" ")[0] if header else None
CourseOf(header) ==
    IF Truthy(header)
    THEN IF header.k = "str" THEN Ok(Str(SplitFirst(header.v))) ELSE Err("AttributeError")
    ELSE Ok(None)

\* df.loc[df['Grade'] == 'note']: the index labels (from 0) of the subheader rows
SubheaderIndex(d) ==
    SelectSeq([i \in 1..Len(d) |-> i - 1], LAMBDA i : d[i + 1].Grade = Str(T_note))

\* df.drop(columns=["Header"])
DropHeader(d) ==
    [r \in 1..Len(d) |->
        [Date |-> d[r].Date, Description |-> d[r].Description, Mean |-> d[r].Mean,
         Weight |-> d[r].Weight, Grade |-> d[r].Grade]]

\* df.iloc[start:stop].reset_index(drop=True), positions counted from 0
Iloc(d, start, stop) == SubSeq(d, start + 1, stop)

\* the slice starts on the subheader row instead of after it
RowsAfterInclusive(d, idx) == Iloc(DropHeader(d), idx, Len(d))

\* df.iloc[idx + 1:]
RowsAfter(d, idx) == Iloc(DropHeader(d), idx + 1, Len(d))

\* lines 164-181, for a table with at least one subheader row; lab_header is
\* None or a list of matches, both false when empty, and <<>> stands for both
course_section(d, data) ==
    LET index == SubheaderIndex(d)
        values == [n \in 1..Len(index) |-> d[index[n] + 1].Header]
        course_grade == ReFindall(values[1])
    IN IF ~course_grade.ok THEN course_grade
       ELSE LET lab_header == IF Len(values) > 1 THEN ReFindall(values[2]) ELSE Ok(<<>>)
                lab_found == lab_header.ok /\ lab_header.val # <<>>
                grades == [course |-> data.course, grade |-> data.grade,
                           course_grade |-> FirstOrNone(course_grade.val),
                           lab_grade |-> IF lab_found THEN Str(lab_header.val[1]) ELSE None]
            IN IF ~lab_header.ok THEN lab_header
               ELSE IF lab_found
                    THEN Ok([course |-> grades.course, grade |-> grades.grade,
                             course_grade |-> grades.course_grade,
                             lab_grade |-> grades.lab_grade,
                             course_data |-> Iloc(DropHeader(d), index[1] + 1, index[2]),
                             lab_data |-> RowsAfter(d, index[2])])
                    ELSE Ok([course |-> grades.course, grade |-> grades.grade,
                             course_grade |-> grades.course_grade,
                             lab_grade |-> grades.lab_grade,
                             course_data |-> RowsAfter(d, index[1])])

\* a table without subheader rows is given a guessed course-work section
subheader_part_guess(d, data) ==
    IF Len(SubheaderIndex(d)) = 0
    THEN Ok([course |-> data.course, grade |-> data.grade, course_grade |-> None,
             lab_grade |-> None, course_data |-> RowsAfter(d, 0)])
    ELSE course_section(d, data)

\* subheaders.values[0] raises IndexError when no row has Grade == 'note'
subheader_part(d, data) ==
    IF Len(SubheaderIndex(d)) = 0 THEN Err("IndexError") ELSE course_section(d, data)

df_to_object(d) ==
    LET header == d[1].Header
        course == CourseOf(header)
        grade == ReFindall(header)
    IN IF ~course.ok THEN course
       ELSE IF ~grade.ok THEN grade
       ELSE subheader_part(d, [course |-> course.val, grade |-> FirstOrNone(grade.val)])

RECURSIVE ParseLoop(_, _, _)
ParseLoop(dfs, n, objects) ==
    IF n > Len(dfs) THEN Ok(objects)
    ELSE LET o == df_to_object(dfs[n])
         IN IF o.ok THEN ParseLoop(dfs, n + 1, Append(objects, o.val)) ELSE o

\* content is the document as BeautifulSoup parsed it: its <tr> elements in order
parse(content) ==
    LET dfs == table_to_df(extract_tables(content))
    IN IF dfs.ok THEN ParseLoop(dfs.val, 1, <<>>) ELSE dfs

----------------------------------------------------------------------------
(* main.py                                                                  *)

T_date == <<"d", "a", "t", "e">>
T_descriptif == <<"d", "e", "s", "c", "r", "i", "p", "t", "i", "f">>
T_moyenne == <<"m", "o", "y", "e", "n", "n", "e">>
T_coef == <<"c", "o", "e", "f", ".">>
T_poids == <<"p", "o", "i", "d", "s">>
T_Labo == <<"L", "a", "b", "o">>
T_Cours == <<"C", "o", "u", "r", "s">>

\* cell.text in ["date", "descriptif", "moyenne", "coef.", "note"]
ColumnLabels == {T_date, T_descriptif, T_moyenne, T_coef, T_note}

\* parser.parse(text).strftime("%Y-%m-%d") of dateutil, kept symbolic
DateOf(text) == [k |-> "date", v |-> text]

\* the data dictionary parse_data starts from
InitialData ==
    [subject |-> Str(<<>>), subject_avg |-> None, lab |-> None, course |-> None,
     date |-> Str(<<>>), name |-> Str(<<>>), mean |-> Str(<<>>), weight |-> Str(<<>>),
     grade |-> Str(<<>>)]

\* the row write_all appends to df
write_all(data) ==
    [Subject |-> data.subject, SubjectAvg |-> data.subject_avg, Lab |-> data.lab,
     Course |-> data.course, Date |-> data.date, Name |-> data.name,
     Grade |-> data.grade, Mean |-> data.mean, Weight |-> data.weight]

\* the scan of one cell: st is [data, out, err, brk]; out holds the rows written
ScanCell(st, cells, j) ==
    LET text == cells[j].text
        data == st.data
        floats == FindallFloat(text)
    IN IF text \in ColumnLabels THEN st
       ELSE IF Contains(text, T_poids)
       THEN IF Contains(text, T_Labo)
            THEN IF floats = <<>> THEN [st EXCEPT !.err = "IndexError"]
                 ELSE [st EXCEPT !.data = [data EXCEPT !.lab = Str(floats[1])]]
            ELSE IF Contains(text, T_Cours)
            THEN [st EXCEPT !.data = [data EXCEPT !.course = FirstOrNone(floats)]]
            ELSE st
       ELSE IF Contains(text, T_moyenne)
       THEN IF FindallBranch(text) = <<>> THEN [st EXCEPT !.err = "IndexError"]
            ELSE [st EXCEPT !.data = [data EXCEPT !.subject = Str(FindallBranch(text)[1]),
                                                  !.subject_avg = FirstOrNone(floats)]]
       ELSE IF MatchDate(text)
       THEN [st EXCEPT !.data = [data EXCEPT !.date = DateOf(text)]]
       ELSE IF MatchString(text)
       THEN IF cells[j].long # <<>>
            THEN [st EXCEPT !.data = [data EXCEPT !.name = Str(Strip(cells[j].long[1]))]]
            ELSE [st EXCEPT !.data = [data EXCEPT !.name = Str(text)]]
       ELSE IF MatchFloat(text)
       THEN IF Len(cells) < 5
            THEN [st EXCEPT !.data = [data EXCEPT !.mean = Str(text)], !.err = "IndexError"]
            ELSE LET written == [data EXCEPT !.mean = Str(text),
                                             !.weight = Str(cells[4].text),
                                             !.grade = Str(cells[5].text)]
                 IN [st EXCEPT !.data = written, !.out = Append(st.out, write_all(written)),
                               !.brk = TRUE]
       ELSE st

RECURSIVE ScanCells(_, _, _)
\* for cell in cells: ... break
ScanCells(st, cells, j) ==
    IF j > Len(cells) \/ st.err # "" \/ st.brk THEN st
    ELSE ScanCells(ScanCell(st, cells, j), cells, j + 1)

RECURSIVE ScanRows(_, _, _)
\* for i in range(len(rows))
ScanRows(st, rows, i) ==
    IF i > Len(rows) \/ st.err # "" THEN st
    ELSE ScanRows(ScanCells([st EXCEPT !.brk = FALSE], rows[i], 1), rows, i + 1)

\* parse_data(content): the rows it writes and the exception it ends with, if any
parse_data(content) ==
    ScanRows([data |-> InitialData, out |-> <<>>, err |-> "", brk |-> FALSE], content, 1)

----------------------------------------------------------------------------
(* The inputs the model draws from                                          *)

T_HeadA == <<"P", "R", "G", " ", "m", "o", "y", "e", "n", "n", "e", " ", "5", ".", "0">>
T_HeadB == <<"M", "A", "T", " ", "m", "o", "y", "e", "n", "n", "e">>
T_CoursG == <<"C", "o", "u", "r", "s", " ", "4", ".", "5", " ", "p", "o", "i", "d", "s">>
T_LaboG == <<"L", "a", "b", "o", " ", "5", ".", "5", " ", "p", "o", "i", "d", "s">>
T_Day == <<"1", ".", "2", ".", "2", "3">>
T_Name == <<"T", "e", "s", "t">>
T_NameShort == <<"T", "E">>
T_NameLong == <<"T", "r", "a", "v", "a", "i", "l", " ", "e", "c", "r", "i", "t", " ">>
T_Mean == <<"4", ".", "0">>
T_Weight == <<"2">>
T_Grade == <<"5", ".", "5">>
T_MSE == <<"M", "S", "E", " ", "4", ".", "5", " ", "m", "o", "y", "e", "n", "n", "e">>
T_LaboNote == <<"L", "a", "b", "o", " ", "n", "o", "t", "e">>
T_145 == <<"1", "4", ".", "5">>
T_1025 == <<"1", "0", ".", "2", "5">>
T_Quiz == <<"Q", "u", "i", "z">>
T_Exam == <<"E", "x", "a", "m">>

Cell(t, c) == [text |-> t, cls |-> c, long |-> <<>>]

R_HeadA == <<Cell(T_HeadA, "bigheader")>>
R_HeadB == <<Cell(T_HeadB, "bigheader")>>
LabelCells == <<Cell(T_date, ""), Cell(T_descriptif, ""), Cell(T_moyenne, ""),
                Cell(T_coef, ""), Cell(T_note, "")>>
R_Cours == <<Cell(T_CoursG, "")>> \o LabelCells
R_Labo == <<Cell(T_LaboG, "")>> \o LabelCells
R_Entry5 == <<Cell(T_Day, ""), Cell(T_Name, ""), Cell(T_Mean, ""), Cell(T_Weight, ""),
              Cell(T_Grade, "")>>
R_Entry6 == <<Cell(<<>>, ""), Cell(T_Day, ""), Cell(T_NameShort, ""), Cell(T_Mean, ""),
              Cell(T_Weight, ""), Cell(T_Grade, "")>>
R_EntryLong == <<Cell(T_Day, ""), [text |-> T_NameLong, cls |-> "", long |-> <<T_NameLong>>],
                 Cell(T_Mean, ""), Cell(T_Weight, ""), Cell(T_Grade, "")>>
R_Short == <<Cell(T_Mean, "")>>

DocRows == {R_HeadA, R_HeadB, R_Cours, R_Labo, R_Entry5, R_Entry6, R_EntryLong, R_Short}

SeqsUpTo(S, n) == UNION {[1..m -> S] : m \in 0..n}

\* rows of a RawTable: header-like rows, subheader rows, assessment rows
HeaderValues == {NaN, Str(T_MSE), Str(T_LaboNote), Str(T_145), Str(T_1025)}
TableRow(h, desc, g) ==
    [Header |-> h, Date |-> NaN, Description |-> desc, Mean |-> NaN, Weight |-> NaN,
     Grade |-> g]
TableRows ==
    {TableRow(h, NaN, NaN) : h \in HeaderValues}
    \cup {TableRow(h, NaN, Str(T_note)) : h \in HeaderValues}
    \cup {TableRow(NaN, Str(T_Quiz), Str(T_Grade)), TableRow(NaN, Str(T_Exam), Str(T_Grade))}
RawTables == SeqsUpTo(TableRows, MaxTableRows) \ {<<>>}

----------------------------------------------------------------------------
(* The entry points                                                         *)

Init ==
    /\ df = <<>>
    /\ call = "idle"
    /\ arg = None
    /\ ret = Ok(None)
    /\ ncalls = 0

ExtractTables(trs) ==
    /\ call' = "extract_tables"
    /\ arg' = [trs |-> trs]
    /\ ret' = Ok([groups |-> extract_tables(trs)])
    /\ ncalls' = ncalls + 1
    /\ UNCHANGED df

DfToObject(d) ==
    /\ call' = "df_to_object"
    /\ arg' = [d |-> d]
    /\ ret' = df_to_object(d)
    /\ ncalls' = ncalls + 1
    /\ UNCHANGED df

\* what parse hands its caller: the list of objects, or the exception raised
ParseResult(content) ==
    LET r == parse(content) IN IF r.ok THEN Ok([objects |-> r.val]) ELSE r

Parse(content) ==
    /\ ncalls < MaxCalls
    /\ call' = "parse"
    /\ arg' = [content |-> content]
    /\ ret' = ParseResult(content)
    /\ ncalls' = ncalls + 1
    /\ UNCHANGED df

ParseData(content) ==
    /\ ncalls < MaxCalls
    /\ LET st == parse_data(content)
       IN /\ df' = df \o st.out
          /\ ret' = IF st.err = "" THEN Ok(None) ELSE Err(st.err)
    /\ call' = "parse_data"
    /\ arg' = [content |-> content]
    /\ ncalls' = ncalls + 1

\* parser.py called once on one input
Next ==
    \/ call = "idle" /\ \E trs \in SeqsUpTo(DocRows, MaxTrs) : ExtractTables(trs)
    \/ call = "idle" /\ \E d \in RawTables : DfToObject(d)
    \/ call = "idle" /\ \E content \in SeqsUpTo(DocRows, MaxTrs) : Parse(content)

Spec == Init /\ [][Next]_vars

\* main.parse_data run once on one document
NextScan == call = "idle" /\ \E content \in SeqsUpTo(DocRows, MaxScanRows) : ParseData(content)

SpecScan == Init /\ [][NextScan]_vars

\* the entry points of both modules invoked repeatedly in one process
NextMain ==
    \/ \E content \in SeqsUpTo(DocRows, MaxDocRows) : ParseData(content)
    \/ \E content \in SeqsUpTo(DocRows, MaxDocRows) : Parse(content)

SpecMain == Init /\ [][NextMain]_vars

----------------------------------------------------------------------------
(* Row Grouper: extract_tables                                              *)

RECURSIVE Flatten(_)
Flatten(groups) == IF groups = <<>> THEN <<>> ELSE Head(groups) \o Flatten(Tail(groups))

RECURSIVE RowsUpTo(_, _)
\* number of rows in groups 1..n
RowsUpTo(groups, n) == IF n = 0 THEN 0 ELSE RowsUpTo(groups, n - 1) + Len(groups[n])

Grouped == call = "extract_tables"
Unmarked(trs) == \A i \in 1..Len(trs) : ~HasBigheader(trs[i])

\* C1: the groups extract_tables returns, concatenated in order, are the input
\* row sequence: no row dropped, duplicated or reordered.
C1_ConcatReproducesInput == Grouped => Flatten(ret.val.groups) = arg.trs

C1_Witness ==
    /\ Grouped
    /\ Len(arg.trs) >= 3
    /\ HasBigheader(arg.trs[1]) /\ HasBigheader(arg.trs[Len(arg.trs)])
    /\ Len(ret.val.groups) >= 2

\* C2 as stated: every row sequence without a marker row gives exactly one
\* group, holding all rows.
C2_UnmarkedOneGroup == (Grouped /\ Unmarked(arg.trs)) => (Len(ret.val.groups) = 1 /\ ret.val.groups[1] = arg.trs)

\* C2 amended: every non-empty row sequence without a marker row gives exactly
\* one group, holding all rows (the empty sequence gives no group).
C2_NonEmptyUnmarkedOneGroup ==
    /\ (Grouped /\ arg.trs # <<>> /\ Unmarked(arg.trs)) => (Len(ret.val.groups) = 1 /\ ret.val.groups[1] = arg.trs)
    /\ (Grouped /\ arg.trs = <<>>) => ret.val.groups = <<>>

C2_Witness == Grouped /\ Len(arg.trs) >= 3 /\ Unmarked(arg.trs) /\ Len(ret.val.groups) = 1

\* C9: every group is non-empty; every group but the first begins with a marker
\* row; no marker row sits at a later position of a group; a row followed by a
\* marker row ends a group; a non-empty input gives 1 + (marker rows at
\* positions > 0) groups; a marker row followed by a marker row is a group alone.
C9_GroupShape ==
    Grouped =>
        LET g == ret.val.groups
        IN /\ \A n \in 1..Len(g) : g[n] # <<>>
           /\ \A n \in 2..Len(g) : HasBigheader(g[n][1])
           /\ \A n \in 1..Len(g) : \A j \in 2..Len(g[n]) : ~HasBigheader(g[n][j])
           /\ \A k \in 1..(Len(arg.trs) - 1) :
                  HasBigheader(arg.trs[k + 1]) => \E n \in 1..Len(g) : RowsUpTo(g, n) = k
           /\ arg.trs # <<>> =>
                  Len(g) = 1 + Cardinality({k \in 2..Len(arg.trs) : HasBigheader(arg.trs[k])})
           /\ \A k \in 1..(Len(arg.trs) - 1) :
                  (HasBigheader(arg.trs[k]) /\ HasBigheader(arg.trs[k + 1])) =>
                      \E n \in 1..Len(g) : RowsUpTo(g, n) = k /\ g[n] = <<arg.trs[k]>>

C9_Witness ==
    /\ Grouped
    /\ \E k \in 2..(Len(arg.trs) - 1) : HasBigheader(arg.trs[k]) /\ HasBigheader(arg.trs[k + 1])
    /\ ~HasBigheader(arg.trs[1])
    /\ Len(ret.val.groups) >= 3

----------------------------------------------------------------------------
(* Record Extractor: df_to_object                                           *)

Extracted == call = "df_to_object"
IsSubheader(row) == row.Grade = Str(T_note)
\* positions (from 1) of the subheader rows of table d
SubheaderRows(d) == {r \in 1..Len(d) : IsSubheader(d[r])}
Least(S) == CHOOSE x \in S : \A y \in S : x <= y
Greatest(S) == CHOOSE x \in S : \A y \in S : y <= x
\* a row as a GradeEntry
EntryOf(row) ==
    [Date |-> row.Date, Description |-> row.Description, Mean |-> row.Mean,
     Weight |-> row.Weight, Grade |-> row.Grade]
\* the rows of d at positions lo..hi as GradeEntries
Entries(d, lo, hi) == [r \in 1..(hi - lo + 1) |-> EntryOf(d[lo + r - 1])]
IsText(x) == x.k = "str"

\* C3: with row 0 the header and exactly two subheader rows s0 < s1, whatever
\* text their Headers hold, course_data is the rows strictly between s0 and s1
\* and lab_data the rows after s1.
C3_TwoSubheadersPartition ==
    (/\ Extracted
     /\ Cardinality(SubheaderRows(arg.d)) = 2
     /\ ~IsSubheader(arg.d[1]) /\ IsText(arg.d[1].Header)
     /\ \A r \in SubheaderRows(arg.d) : IsText(arg.d[r].Header))
    => LET s0 == Least(SubheaderRows(arg.d))
           s1 == Greatest(SubheaderRows(arg.d))
       IN /\ ret.ok
          /\ "lab_data" \in DOMAIN ret.val
          /\ ret.val.course_data = Entries(arg.d, s0 + 1, s1 - 1)
          /\ ret.val.lab_data = Entries(arg.d, s1 + 1, Len(arg.d))

\* a match of digit, point, one or two digits that is a token of its own: no
\* digit before it and none after it
TokenLenAt(text, p) ==
    IF /\ IsDigitAt(text, p) /\ ~IsDigitAt(text, p - 1)
       /\ p + 2 <= Len(text) /\ text[p + 1] = "." /\ IsDigitAt(text, p + 2)
    THEN IF ~IsDigitAt(text, p + 3) THEN 3
         ELSE IF ~IsDigitAt(text, p + 4) THEN 4 ELSE 0
    ELSE 0
GradeToken(text) ==
    IF \E p \in 1..Len(text) : TokenLenAt(text, p) > 0
    THEN LET p == Least({q \in 1..Len(text) : TokenLenAt(text, q) > 0})
         IN Str(SubSeq(text, p, p + TokenLenAt(text, p) - 1))
    ELSE None

\* C4: each grade df_to_object extracts (overall, course-work, lab) is the
\* first token of the shape digit, point, one or two digits of its Header text,
\* and null when there is none: "14.5" and "10.25" give null.
C4_GradeIsShapedToken ==
    (Extracted /\ ret.ok /\ ~IsSubheader(arg.d[1])) =>
        LET s0 == Least(SubheaderRows(arg.d))
            s1 == Greatest(SubheaderRows(arg.d))
        IN /\ ret.val.grade = GradeToken(arg.d[1].Header.v)
           /\ ret.val.course_grade = GradeToken(arg.d[s0].Header.v)
           /\ Cardinality(SubheaderRows(arg.d)) = 2 =>
                  ret.val.lab_grade = GradeToken(arg.d[s1].Header.v)

\* C5: a table without subheader row makes df_to_object fail, and parse hands
\* the failure to its caller; no record with a guessed section is returned.
C5_NoSubheaderFails ==
    /\ (Extracted /\ SubheaderRows(arg.d) = {}) => ~ret.ok
    /\ (/\ call = "parse"
        /\ table_to_df(extract_tables(arg.content)).ok
        /\ \E n \in 1..Len(table_to_df(extract_tables(arg.content)).val) :
               SubheaderRows(table_to_df(extract_tables(arg.content)).val[n]) = {})
       => ~ret.ok

C5_Witness ==
    /\ Extracted
    /\ SubheaderRows(arg.d) = {}
    /\ Len(arg.d) >= 2
    /\ IsText(arg.d[1].Header)
    /\ ret = Err("IndexError")

\* C6: with an empty row-0 Header cell (NaN, what the Table Builder yields) and
\* at least one subheader row, df_to_object returns a record with course = null
\* and grade = null instead of raising.
C6_EmptyHeaderGivesNulls ==
    (/\ Extracted
     /\ arg.d[1].Header = NaN
     /\ SubheaderRows(arg.d) # {}
     /\ \A r \in SubheaderRows(arg.d) : IsText(arg.d[r].Header))
    => (ret.ok /\ ret.val.course = None /\ ret.val.grade = None)

\* C7: with exactly one subheader row the returned record has lab_grade = null,
\* no lab_data, and course_data = every row after the subheader row.
C7_OneSubheaderNoLab ==
    (Extracted /\ ret.ok /\ Cardinality(SubheaderRows(arg.d)) = 1) =>
        LET s0 == Least(SubheaderRows(arg.d))
        IN /\ ret.val.lab_grade = None
           /\ "lab_data" \notin DOMAIN ret.val
           /\ ret.val.course_data = Entries(arg.d, s0 + 1, Len(arg.d))

C7_Witness ==
    /\ Extracted /\ ret.ok
    /\ SubheaderRows(arg.d) = {2}
    /\ Len(arg.d) = 4
    /\ Len(ret.val.course_data) = 2
    /\ ret.val.course_grade # None

----------------------------------------------------------------------------
(* Repeated invocations, and the legacy scanner                             *)

\* C8: what an invocation yields depends on its document alone: parse returns
\* what it returns for that document in a fresh process, and after parse_data
\* the table df holds the rows of that document only.
C8_InvocationsIndependent ==
    /\ call = "parse" => ret = ParseResult(arg.content)
    /\ call = "parse_data" => df = parse_data(arg.content).out

\* a cell the scanner takes for a subject header
SubjectHeaderCell(c) ==
    /\ c.text \notin ColumnLabels
    /\ ~Contains(c.text, T_poids)
    /\ Contains(c.text, T_moyenne)
IsSubjectHeaderRow(tr) == \E j \in 1..Len(tr) : SubjectHeaderCell(tr[j])
\* a subheader row of category label carrying a grade
CarriesGrade(tr, label) ==
    \E j \in 1..Len(tr) :
        /\ Contains(tr[j].text, T_poids)
        /\ Contains(tr[j].text, label)
        /\ FindallFloat(tr[j].text) # <<>>
\* the last row of the document was written to df
LastRowWritten ==
    /\ call = "parse_data" /\ ret.ok /\ arg.content # <<>>
    /\ Len(df) = Len(parse_data(SubSeq(arg.content, 1, Len(arg.content) - 1)).out) + 1
\* since subject header row h, no subheader of category label carried a grade
OwnBlockWithout(h, label) ==
    /\ IsSubjectHeaderRow(arg.content[h])
    /\ \A m \in (h + 1)..Len(arg.content) : ~CarriesGrade(arg.content[m], label)

\* C10: an assessment row is written with the Lab and Course grades of its own
\* subject block: None when no such subheader with a grade came since the
\* subject header row, never a value left by an earlier block.
C10_OwnBlockGrades ==
    LastRowWritten =>
        \A h \in 1..(Len(arg.content) - 1) :
            /\ OwnBlockWithout(h, T_Labo) => df[Len(df)].Lab = None
            /\ OwnBlockWithout(h, T_Cours) => df[Len(df)].Course = None

====
